---- MODULE Spec2Model ----
(***************************************************************************)
(* Model of src/src/uni_text.py (class UniText).                           *)
(*                                                                         *)
(* A text is a sequence of Unicode code points (Python str indexed by      *)
(* scalar value).  Python index i corresponds to position i + 1 here.      *)
(* Every static method is an operator computed the way the code computes   *)
(* it; each specification draws the arguments of one method in its initial *)
(* state and its actions perform the call.                                 *)
(***************************************************************************)
EXTENDS Integers, Sequences, FiniteSets, TLC

VARIABLES
    pc,          \* "call": arguments chosen; "done": returned; "again": second pass returned; "raised": exception
    text,        \* the text argument
    lang,        \* the lang argument of is_sentence_end_with_punctuation
    code_point,  \* the code_point argument of is_cjk_character
    mode,        \* extra positional argument handed to remove_punctuations, NoArg when absent
    result,      \* text returned by remove_punctuations / remove_consecutive_punctuations
    kept,        \* history: positions of text whose character was appended to result
    again,       \* text returned when the same method is applied to result
    returned,    \* boolean returned by is_cjk_character / is_sentence_end_with_punctuation
    raised       \* name of the exception raised, "none" when the call returned

vars == <<pc, text, lang, code_point, mode, result, kept, again, returned, raised>>

(***************************************************************************)
(* Bounds of the model.                                                    *)
(***************************************************************************)
MaxLen == 4
MaxCollapseLen == 5
MaxSentLen == 3
MaxCodePoint == 205744

NoArg == "NoArg"

RECURSIVE SeqsUpTo(_, _)
SeqsUpTo(S, n) ==
    IF n = 0 THEN {<<>>}
    ELSE LET shorter == SeqsUpTo(S, n - 1)
         IN  shorter \cup {Append(s, c) : s \in {t \in shorter : Len(t) = n - 1}, c \in S}

(***************************************************************************)
(* Characters the code names.                                              *)
(***************************************************************************)
APOSTROPHE == 39
DOT == 46
SLASH == 47
PERCENT == 37
HYPHEN == 45

(***************************************************************************)
(* unicodedata.category, str.isalpha, str.isdigit on the modelled          *)
(* characters.                                                             *)
(***************************************************************************)
category(c) ==
    CASE c \in {97, 115} -> "Ll"                \* a s
      [] c \in {83} -> "Lu"                     \* S
      [] c \in {20320} -> "Lo"                  \* U+4F60
      [] c \in {53} -> "Nd"                     \* 5
      [] c \in {32} -> "Zs"                     \* space
      [] c \in {9, 10} -> "Cc"                  \* \t \n
      [] c \in {HYPHEN} -> "Pd"
      [] c \in {APOSTROPHE, DOT, SLASH, PERCENT, 44, 33, 59, 63} -> "Po"   \* ' . / % , ! ; ?
      [] c \in {8230, 12290, 65281, 65307, 65311} -> "Po"   \* U+2026 U+3002 U+FF01 U+FF1B U+FF1F
      [] OTHER -> "Cn"

isalpha(c) == category(c) \in {"Lu", "Ll", "Lt", "Lm", "Lo"}

isdigit(c) == category(c) = "Nd"

\* "P"-categories of the Unicode character database: category(char).startswith("P")
PunctuationCategories == {"Pc", "Pd", "Pe", "Pf", "Pi", "Po", "Ps"}

\* is_punctuation(char): char is a str of any length
is_punctuation(char) ==
    IF char = <<>> \/ Len(char) # 1 THEN FALSE
    ELSE category(char[1]) \in PunctuationCategories

(***************************************************************************)
(* remove_punctuations                                                     *)
(***************************************************************************)
\* " \n\t"
SpaceNewlineTab == {32, 10, 9}

\* a mutant whose plural-possessive branch forgets the letter before the
\* apostrophe
KeepApostropheNoLeftCheck(t, p) ==
    IF p > 1 /\ p < Len(t)
    THEN \/ isalpha(t[p - 1]) /\ isalpha(t[p + 1])
         \/ isalpha(t[p - 1]) /\ t[p + 1] \in {115, 83}
    ELSE IF p > 1
         THEN p = Len(t) \/ t[p + 1] \in SpaceNewlineTab
         ELSE FALSE

\* the branch of an apostrophe at position p (lines 110-122)
KeepApostrophe(t, p) ==
    IF p > 1 /\ p < Len(t)
    THEN IF isalpha(t[p - 1]) /\ isalpha(t[p + 1]) THEN TRUE
         ELSE IF isalpha(t[p - 1]) /\ t[p + 1] \in {115, 83} THEN TRUE
         ELSE FALSE
    ELSE IF p > 1
         THEN isalpha(t[p - 1]) /\ (p = Len(t) \/ t[p + 1] \in SpaceNewlineTab)
         ELSE FALSE

\* a mutant with the Chinese-context rule: every '.' is kept
is_decimal_always(t, p) == TRUE

\* is_decimal for a '.' at position p (lines 125-138)
is_decimal(t, p) ==
    IF p > 1 /\ p < Len(t)
    THEN isdigit(t[p - 1]) /\ isdigit(t[p + 1])
    ELSE IF p > 1
         THEN isdigit(t[p - 1]) /\ (p = Len(t) \/ t[p + 1] \in SpaceNewlineTab)
         ELSE IF p < Len(t)
              THEN isdigit(t[p + 1])
              ELSE FALSE

\* the branch of a '/' at position p (lines 142-150)
KeepSlash(t, p) ==
    IF p > 1 /\ p < Len(t)
    THEN IF isdigit(t[p - 1]) /\ isdigit(t[p + 1]) THEN TRUE
         ELSE IF isalpha(t[p - 1]) /\ isalpha(t[p + 1]) THEN TRUE
         ELSE FALSE
    ELSE FALSE

\* a mutant that forgets the '%-' branch
AppendsNoPercentHyphen(t, p) ==
    IF ~is_punctuation(<<t[p]>>) THEN TRUE
    ELSE IF t[p] = APOSTROPHE THEN KeepApostrophe(t, p)
    ELSE IF t[p] = DOT THEN is_decimal(t, p)
    ELSE IF t[p] = SLASH THEN KeepSlash(t, p)
    ELSE FALSE

\* whether the loop body appends the character at position p (lines 108-153)
Appends(t, p) ==
    IF ~is_punctuation(<<t[p]>>) THEN TRUE
    ELSE IF t[p] = APOSTROPHE THEN KeepApostrophe(t, p)
    ELSE IF t[p] = DOT THEN is_decimal(t, p)
    ELSE IF t[p] = SLASH THEN KeepSlash(t, p)
    ELSE IF t[p] \in {PERCENT, HYPHEN} THEN TRUE
    ELSE FALSE

\* the for loop from position p on; acc.result is the list result, acc.kept
\* records the positions appended
RECURSIVE RemovePunctuationsLoop(_, _, _)
RemovePunctuationsLoop(t, p, acc) ==
    IF p > Len(t) THEN acc
    ELSE RemovePunctuationsLoop(t, p + 1,
            IF Appends(t, p)
            THEN [result |-> Append(acc.result, t[p]), kept |-> acc.kept \cup {p}]
            ELSE acc)

RemovePunctuationsRun(t) ==
    IF t = <<>> THEN [result |-> t, kept |-> {}]
    ELSE RemovePunctuationsLoop(t, 1, [result |-> <<>>, kept |-> {}])

remove_punctuations(t) == RemovePunctuationsRun(t).result

\* characters of the texts handed to remove_punctuations: a s 5 space ' . / % - ,
FilterChars == {97, 115, 53, 32, APOSTROPHE, DOT, SLASH, PERCENT, HYPHEN, 44}

FilterTexts == SeqsUpTo(FilterChars, MaxLen)

\* mode arguments a caller following the three-mode interface would pass
ModeArgs == {"general", "chinese_context", "advanced"}

InitRP ==
    /\ pc = "call"
    /\ text \in FilterTexts
    /\ lang = <<>>
    /\ code_point = 0
    /\ mode = NoArg
    /\ result = <<>>
    /\ kept = {}
    /\ again = <<>>
    /\ returned = FALSE
    /\ raised = "none"

\* UniText.remove_punctuations(text)
CallRemovePunctuations ==
    /\ pc = "call"
    /\ result' = remove_punctuations(text)
    /\ kept' = RemovePunctuationsRun(text).kept
    /\ pc' = "done"
    /\ UNCHANGED <<text, lang, code_point, mode, again, returned, raised>>

\* UniText.remove_punctuations(text, m): the signature takes one positional
\* parameter, so Python raises TypeError before the body runs
CallRemovePunctuationsWithMode ==
    /\ pc = "call"
    /\ \E m \in ModeArgs : mode' = m
    /\ raised' = "TypeError"
    /\ pc' = "raised"
    /\ UNCHANGED <<text, lang, code_point, result, kept, again, returned>>

\* UniText.remove_punctuations(result)
ReapplyRemovePunctuations ==
    /\ pc = "done"
    /\ again' = remove_punctuations(result)
    /\ pc' = "again"
    /\ UNCHANGED <<text, lang, code_point, mode, result, kept, returned, raised>>

NextRP ==
    \/ CallRemovePunctuations
    \/ CallRemovePunctuationsWithMode
    \/ ReapplyRemovePunctuations

SpecRP == InitRP /\ [][NextRP]_vars

(***************************************************************************)
(* Helpers of the properties below.                                        *)
(***************************************************************************)
\* the characters of t at the positions of K, in order
RECURSIVE Restrict(_, _, _)
Restrict(t, K, p) ==
    IF p > Len(t) THEN <<>>
    ELSE IF p \in K THEN <<t[p]>> \o Restrict(t, K, p + 1)
    ELSE Restrict(t, K, p + 1)

\* a is obtained from b by deleting characters
RECURSIVE IsSubsequence(_, _)
IsSubsequence(a, b) ==
    IF a = <<>> THEN TRUE
    ELSE IF b = <<>> THEN FALSE
    ELSE IF Head(a) = Head(b) THEN IsSubsequence(Tail(a), Tail(b))
    ELSE IsSubsequence(a, Tail(b))

IsPunct(c) == category(c) \in PunctuationCategories

IsWhitespace(c) == category(c) = "Zs" \/ c \in {9, 10}

HasDigitNeighbour(t, p) ==
    \/ p > 1 /\ isdigit(t[p - 1])
    \/ p < Len(t) /\ isdigit(t[p + 1])

(***************************************************************************)
(* Properties of remove_punctuations, checked under SpecRP.                *)
(***************************************************************************)

\* C1: an apostrophe whose left neighbour is alphabetic and which is the last
\* character or is followed by a whitespace character is kept by
\* remove_punctuations.
C1_PluralPossessiveKept ==
    pc = "done" =>
        \A p \in 1..Len(text) :
            ( /\ text[p] = APOSTROPHE
              /\ p > 1
              /\ isalpha(text[p - 1])
              /\ (p = Len(text) \/ IsWhitespace(text[p + 1])) )
            => p \in kept

\* the three contexts in which claim C2 calls a '.' a decimal point
ClaimedDecimalPoint(t, p) ==
    \/ p > 1 /\ p < Len(t) /\ isdigit(t[p - 1]) /\ isdigit(t[p + 1])
    \/ p > 1 /\ isdigit(t[p - 1]) /\ (p = Len(t) \/ IsWhitespace(t[p + 1]))
    \/ p = 1 /\ p < Len(t) /\ isdigit(t[p + 1])

\* C2: remove_punctuations keeps a '.' if and only if both neighbours are
\* digits, or the left neighbour is a digit and the '.' is last or followed by
\* whitespace, or it is the first character and is followed by a digit.
C2_DotKeptIffDecimalPoint ==
    pc = "done" =>
        \A p \in 1..Len(text) :
            text[p] = DOT => (p \in kept <=> ClaimedDecimalPoint(text, p))

KeepsNonPunctuationPercentHyphen(c) == ~IsPunct(c) \/ c \in {PERCENT, HYPHEN}

\* C7: the output of remove_punctuations is an order-preserving subsequence
\* of the input that keeps every non-punctuation character, every '%' and
\* every '-', and drops every punctuation character other than ' . / % -.
C7_FrameOfRemovePunctuations ==
    pc = "done" =>
        /\ IsSubsequence(result, text)
        /\ result = Restrict(text, kept, 1)
        /\ SelectSeq(result, KeepsNonPunctuationPercentHyphen)
              = SelectSeq(text, KeepsNonPunctuationPercentHyphen)
        /\ \A p \in 1..Len(text) :
              /\ KeepsNonPunctuationPercentHyphen(text[p]) => p \in kept
              /\ (IsPunct(text[p]) /\ text[p] \notin {APOSTROPHE, DOT, SLASH, PERCENT, HYPHEN})
                    => p \notin kept
        /\ \A k \in 1..Len(result) :
              IsPunct(result[k]) => result[k] \in {APOSTROPHE, DOT, SLASH, PERCENT, HYPHEN}

\* a call that met a letter, a '%', a '-' and a ',' and dropped only the ','
C7_Witness ==
    /\ pc = "done"
    /\ \E p, q, r, s \in 1..Len(text) :
          /\ text[p] = 97 /\ text[q] = PERCENT /\ text[r] = HYPHEN /\ text[s] = 44
          /\ kept = {p, q, r}

\* C8 as stated: remove_punctuations can be called in a chinese_context mode,
\* and in that mode every '.' of the input is kept whatever its neighbours.
C8_ChineseContextKeepsEveryDot ==
    mode = "chinese_context" =>
        /\ raised = "none"
        /\ pc = "done"
        /\ \A p \in 1..Len(text) : text[p] = DOT => p \in kept

\* C8 amended: remove_punctuations takes the text alone (a call that passes a
\* mode raises TypeError and returns nothing) and has the single advanced
\* variant, in which a '.' is kept only next to a digit.
C8_SingleAdvancedVariant ==
    /\ mode # NoArg => (pc = "raised" /\ raised = "TypeError" /\ result = <<>>)
    /\ pc = "done" =>
          \A p \in 1..Len(text) :
              (text[p] = DOT /\ p \in kept) => HasDigitNeighbour(text, p)

\* a call that dropped a '.' standing between two letters
C8_Witness ==
    /\ pc = "done"
    /\ \E p \in 2..(Len(text) - 1) :
          /\ text[p] = DOT
          /\ isalpha(text[p - 1]) /\ isalpha(text[p + 1])
          /\ p \notin kept

\* C10: remove_punctuations is idempotent: applying it to its own output
\* returns that output unchanged.
C10_RemovePunctuationsIdempotent ==
    pc = "again" => again = result

\* a second pass over an output that lost a character and still holds a kept
\* apostrophe, '.' and '/'
C10_Witness ==
    /\ pc = "again"
    /\ Len(result) < Len(text)
    /\ \E p \in kept : text[p] \in {APOSTROPHE, DOT, SLASH}
    /\ again = result

(***************************************************************************)
(* remove_consecutive_punctuations                                         *)
(***************************************************************************)
\* a mutant that clears the flag when it skips a character
CollapseStepClearsFlagOnSkip(acc, c, p) ==
    LET is_punc == is_punctuation(<<c>>)
    IN  IF is_punc /\ acc.prev_is_punc
        THEN [acc EXCEPT !.prev_is_punc = FALSE]
        ELSE [result |-> Append(acc.result, c),
              prev_is_punc |-> is_punc,
              kept |-> acc.kept \cup {p}]

\* a mutant that skips a mark only when it repeats the mark before it
CollapseStepSameMarkOnly(acc, c, p) ==
    LET is_punc == is_punctuation(<<c>>)
    IN  IF is_punc /\ acc.prev_is_punc /\ acc.result[Len(acc.result)] = c
        THEN acc
        ELSE [result |-> Append(acc.result, c),
              prev_is_punc |-> is_punc,
              kept |-> acc.kept \cup {p}]

\* one iteration of the for loop on character c, found at position p
\* (lines 185-194); acc.kept records the positions appended
CollapseStep(acc, c, p) ==
    LET is_punc == is_punctuation(<<c>>)
    IN  IF is_punc /\ acc.prev_is_punc
        THEN acc
        ELSE [result |-> Append(acc.result, c),
              prev_is_punc |-> is_punc,
              kept |-> acc.kept \cup {p}]

RECURSIVE CollapseLoop(_, _, _)
CollapseLoop(t, p, acc) ==
    IF p > Len(t) THEN acc
    ELSE CollapseLoop(t, p + 1, CollapseStep(acc, t[p], p))

CollapseRun(t) ==
    IF t = <<>> THEN [result |-> t, prev_is_punc |-> FALSE, kept |-> {}]
    ELSE CollapseLoop(t, 1, [result |-> <<>>, prev_is_punc |-> FALSE, kept |-> {}])

remove_consecutive_punctuations(t) == CollapseRun(t).result

\* characters of the texts handed to remove_consecutive_punctuations:
\* a U+4F60 , . !
CollapseChars == {97, 20320, 44, DOT, 33}

CollapseTexts == SeqsUpTo(CollapseChars, MaxCollapseLen)

InitRCP ==
    /\ pc = "call"
    /\ text \in CollapseTexts
    /\ lang = <<>>
    /\ code_point = 0
    /\ mode = NoArg
    /\ result = <<>>
    /\ kept = {}
    /\ again = <<>>
    /\ returned = FALSE
    /\ raised = "none"

\* UniText.remove_consecutive_punctuations(text)
CallRemoveConsecutivePunctuations ==
    /\ pc = "call"
    /\ result' = remove_consecutive_punctuations(text)
    /\ kept' = CollapseRun(text).kept
    /\ pc' = "done"
    /\ UNCHANGED <<text, lang, code_point, mode, again, returned, raised>>

\* UniText.remove_consecutive_punctuations(result)
ReapplyRemoveConsecutivePunctuations ==
    /\ pc = "done"
    /\ again' = remove_consecutive_punctuations(result)
    /\ pc' = "again"
    /\ UNCHANGED <<text, lang, code_point, mode, result, kept, returned, raised>>

NextRCP ==
    \/ CallRemoveConsecutivePunctuations
    \/ ReapplyRemoveConsecutivePunctuations

SpecRCP == InitRCP /\ [][NextRCP]_vars

(***************************************************************************)
(* Properties of remove_consecutive_punctuations, checked under SpecRCP.   *)
(***************************************************************************)

\* C5: remove_consecutive_punctuations is idempotent, and its output never
\* holds two adjacent punctuation characters.
C5_CollapseIdempotent ==
    /\ pc = "again" => again = result
    /\ pc \in {"done", "again"} =>
          \A k \in 1..(Len(result) - 1) : ~(IsPunct(result[k]) /\ IsPunct(result[k + 1]))

\* a second pass over an output that was shortened and still holds a mark
C5_Witness ==
    /\ pc = "again"
    /\ Len(result) < Len(text)
    /\ \E k \in 1..Len(result) : IsPunct(result[k])

\* positions of t holding a mark that directly follows a mark of t
FollowsPunctuation(t) ==
    {p \in 2..Len(t) : IsPunct(t[p]) /\ IsPunct(t[p - 1])}

\* C9: remove_consecutive_punctuations drops the character at a position if
\* and only if it is punctuation and the character before it in the original
\* text is punctuation; the others are emitted in order, so the first mark of
\* a run survives and no non-punctuation character is removed.
C9_DropsExactlyFollowers ==
    pc = "done" =>
        /\ kept = (1..Len(text)) \ FollowsPunctuation(text)
        /\ result = Restrict(text, kept, 1)
        /\ \A p \in 1..Len(text) : ~IsPunct(text[p]) => p \in kept
        /\ \A p \in 1..Len(text) :
              (IsPunct(text[p]) /\ (p = 1 \/ ~IsPunct(text[p - 1]))) => p \in kept

\* a run of three different marks between two letters, cut to its first mark
C9_Witness ==
    /\ pc = "done"
    /\ Len(text) = 5
    /\ ~IsPunct(text[1]) /\ ~IsPunct(text[5])
    /\ IsPunct(text[2]) /\ IsPunct(text[3]) /\ IsPunct(text[4])
    /\ text[2] # text[3] /\ text[3] # text[4]
    /\ result = <<text[1], text[2], text[5]>>

(***************************************************************************)
(* is_sentence_end_with_punctuation                                        *)
(*                                                                         *)
(* The punctuation sets are Python sets of strings; each is listed here in *)
(* the order of the source.  A for loop over a Python set visits it in an  *)
(* order the language does not fix, modelled as the list or its reverse.    *)
(***************************************************************************)
SENTENCE_END_PUNCTUATIONS_ZH ==
    << <<\H3002>>, <<\HFF1F>>, <<\HFF01>>, <<\HFF1B>>, <<\H2026>>, <<\H2026, \H2026>> >>

SENTENCE_END_PUNCTUATIONS_EN ==
    << <<DOT>>, <<63>>, <<33>>, <<59>>, <<\H2026>>, <<DOT, DOT, DOT>> >>

\* a mutant that copies the single-character ellipsis of the Chinese set
SENTENCE_END_PUNCTUATIONS_JA_WithEllipsis ==
    << <<\H3002>>, <<\HFF1F>>, <<\HFF01>>, <<\HFF1B>>, <<\H2026>>, <<\H2026, \H2026>> >>

SENTENCE_END_PUNCTUATIONS_JA ==
    << <<\H3002>>, <<\HFF1F>>, <<\HFF01>>, <<\HFF1B>>, <<\H2026, \H2026>> >>

SENTENCE_END_PUNCTUATIONS_KO ==
    << <<DOT>>, <<33>>, <<63>>, <<59>>, <<\H3002>>, <<\HFF01>>, <<\HFF1F>>, <<\HFF1B>>,
       <<\H2026>>, <<\H2026, \H2026>>, <<DOT, DOT, DOT>> >>

\* one iteration order of the set: the listed order, or its reverse
IterationOrder(list, rev) ==
    IF rev THEN [i \in 1..Len(list) |-> list[Len(list) + 1 - i]] ELSE list

\* str.endswith
endswith(t, suffix) ==
    /\ Len(suffix) <= Len(t)
    /\ SubSeq(t, Len(t) - Len(suffix) + 1, Len(t)) = suffix

\* for punct in <set>: if text.endswith(punct): return True / return False
RECURSIVE EndsWithAny(_, _)
EndsWithAny(t, order) ==
    IF order = <<>> THEN FALSE
    ELSE IF endswith(t, Head(order)) THEN TRUE
    ELSE EndsWithAny(t, Tail(order))

_is_sentence_end_with_zh_punctuation(t, rev) ==
    IF t = <<>> THEN FALSE ELSE EndsWithAny(t, IterationOrder(SENTENCE_END_PUNCTUATIONS_ZH, rev))

_is_sentence_end_with_en_punctuation(t, rev) ==
    IF t = <<>> THEN FALSE ELSE EndsWithAny(t, IterationOrder(SENTENCE_END_PUNCTUATIONS_EN, rev))

_is_sentence_end_with_ja_punctuation(t, rev) ==
    IF t = <<>> THEN FALSE ELSE EndsWithAny(t, IterationOrder(SENTENCE_END_PUNCTUATIONS_JA, rev))

_is_sentence_end_with_ko_punctuation(t, rev) ==
    IF t = <<>> THEN FALSE ELSE EndsWithAny(t, IterationOrder(SENTENCE_END_PUNCTUATIONS_KO, rev))

\* str.lower on the modelled tags: A-Z become a-z
lower(str) == [i \in 1..Len(str) |-> IF str[i] \in 65..90 THEN str[i] + 32 ELSE str[i]]

\* "zh" "en" "ja" "ko"
TagZH == <<122, 104>>
TagEN == <<101, 110>>
TagJA == <<106, 97>>
TagKO == <<107, 111>>

\* is_sentence_end_with_punctuation(text, lang), the sets iterated in the
\* order rev selects; the outcome is the value returned or the exception raised
is_sentence_end_with_punctuation(t, l, rev) ==
    IF t = <<>> THEN [raised |-> "none", returned |-> FALSE]
    ELSE LET lowered == lower(l)
         IN  IF lowered = TagZH
             THEN [raised |-> "none", returned |-> _is_sentence_end_with_zh_punctuation(t, rev)]
             ELSE IF lowered = TagEN
             THEN [raised |-> "none", returned |-> _is_sentence_end_with_en_punctuation(t, rev)]
             ELSE IF lowered = TagJA
             THEN [raised |-> "none", returned |-> _is_sentence_end_with_ja_punctuation(t, rev)]
             ELSE IF lowered = TagKO
             THEN [raised |-> "none", returned |-> _is_sentence_end_with_ko_punctuation(t, rev)]
             ELSE [raised |-> "ValueError", returned |-> FALSE]

\* characters of the texts handed to is_sentence_end_with_punctuation:
\* a . ? ! ; U+2026 U+3002 U+FF1F U+FF01 U+FF1B
SentenceChars == {97, DOT, 63, 33, 59, \H2026, \H3002, \HFF1F, \HFF01, \HFF1B}

SentenceTexts == SeqsUpTo(SentenceChars, MaxSentLen)

\* every spelling of a two-letter lower-case tag in upper and lower case
Spellings(tag) == {<<x, y>> : x \in {tag[1], tag[1] - 32}, y \in {tag[2], tag[2] - 32}}

\* the tags tried: the four languages in every spelling, and "fr" "FR" "zn"
\* "z" "zhh" and the empty tag
LangTags ==
    Spellings(TagZH) \cup Spellings(TagEN) \cup Spellings(TagJA) \cup Spellings(TagKO)
        \cup {<<102, 114>>, <<70, 82>>, <<122, 110>>, <<122>>, <<122, 104, 104>>, <<>>}

InitSE ==
    /\ pc = "call"
    /\ text \in SentenceTexts
    /\ lang \in LangTags
    /\ code_point = 0
    /\ mode = NoArg
    /\ result = <<>>
    /\ kept = {}
    /\ again = <<>>
    /\ returned = FALSE
    /\ raised = "none"

\* UniText.is_sentence_end_with_punctuation(text, lang): returns a boolean
\* or raises
CallIsSentenceEndWithPunctuation ==
    /\ pc = "call"
    /\ \E rev \in BOOLEAN :
          LET outcome == is_sentence_end_with_punctuation(text, lang, rev)
          IN  /\ raised' = outcome.raised
              /\ returned' = outcome.returned
              /\ pc' = IF outcome.raised = "none" THEN "done" ELSE "raised"
    /\ UNCHANGED <<text, lang, code_point, mode, result, kept, again>>

NextSE == CallIsSentenceEndWithPunctuation

SpecSE == InitSE /\ [][NextSE]_vars

(***************************************************************************)
(* Properties of is_sentence_end_with_punctuation, checked under SpecSE.   *)
(***************************************************************************)
\* upper-case folding, used to compare tags without regard to case
FoldUpper(str) == [i \in 1..Len(str) |-> IF str[i] \in 97..122 THEN str[i] - 32 ELSE str[i]]

\* "ZH" "EN" "JA" "KO"
RecognisedFolded == {<<90, 72>>, <<69, 78>>, <<74, 65>>, <<75, 79>>}

IsRecognisedTag(l) == FoldUpper(l) \in RecognisedFolded

\* the sentence-end set of each language as the specification lists it
SentenceEndSetOf(l) ==
    CASE FoldUpper(l) = <<90, 72>> ->
            {<<12290>>, <<65311>>, <<65281>>, <<65307>>, <<8230>>, <<8230, 8230>>}
      [] FoldUpper(l) = <<69, 78>> ->
            {<<46>>, <<63>>, <<33>>, <<59>>, <<8230>>, <<46, 46, 46>>}
      [] FoldUpper(l) = <<74, 65>> ->
            {<<12290>>, <<65311>>, <<65281>>, <<65307>>, <<8230, 8230>>}
      [] FoldUpper(l) = <<75, 79>> ->
            {<<46>>, <<33>>, <<63>>, <<59>>, <<12290>>, <<65281>>, <<65311>>, <<65307>>,
             <<8230>>, <<8230, 8230>>, <<46, 46, 46>>}

HasSuffix(t, s) ==
    /\ Len(s) <= Len(t)
    /\ \A i \in 1..Len(s) : t[Len(t) - Len(s) + i] = s[i]

\* C3: is_sentence_end_with_punctuation raises ValueError for every call whose
\* tag, compared without regard to case, is none of zh, en, ja, ko, whatever
\* the text (the empty text included), and never raises for a recognised tag.
C3_UnrecognisedTagAlwaysRaises ==
    pc \in {"done", "raised"} =>
        IF IsRecognisedTag(lang)
        THEN pc = "done" /\ raised = "none"
        ELSE pc = "raised" /\ raised = "ValueError"

\* C4: for a tag that equals zh, en, ja or ko without regard to case, the
\* call returns false on the empty text and otherwise true exactly when the
\* text ends with a string of the language's sentence-end set, whatever the
\* order the set is visited in and whatever the case of the tag.  (Every
\* iteration order and every spelling of the tag is a call of its own, and the
\* value required of each depends on neither.)
C4_ReturnsSuffixMembership ==
    (pc \in {"done", "raised"} /\ IsRecognisedTag(lang)) =>
        /\ pc = "done"
        /\ raised = "none"
        /\ returned = (text # <<>> /\ \E s \in SentenceEndSetOf(lang) : HasSuffix(text, s))

\* a call with the upper-case tag JA on a letter followed by one ellipsis
\* character, which the Japanese set does not hold: it returns false
C4_Witness ==
    /\ pc = "done"
    /\ lang = <<74, 65>>
    /\ Len(text) = 2
    /\ text[2] = 8230 /\ text[1] = 97
    /\ returned = FALSE

(***************************************************************************)
(* is_cjk_character                                                        *)
(***************************************************************************)
\* a mutant whose Extension A test excludes its first code point
is_cjk_character_ExtAExclusive(cp) ==
    \/ (\H4E00 <= cp /\ cp <= \H9FFF)
    \/ (\H3400 < cp /\ cp <= \H4DBF)
    \/ (\H20000 <= cp /\ cp <= \H2A6DF)
    \/ (\H2A700 <= cp /\ cp <= \H2B73F)
    \/ (\H2B740 <= cp /\ cp <= \H2B81F)
    \/ (\H2B820 <= cp /\ cp <= \H2CEAF)
    \/ (\H2CEB0 <= cp /\ cp <= \H2EBEF)
    \/ (\H30000 <= cp /\ cp <= \H3134F)
    \/ (\H31350 <= cp /\ cp <= \H323AF)
    \/ (\H2EBF0 <= cp /\ cp <= \H2EE5F)
    \/ (\HF900 <= cp /\ cp <= \HFAFF)
    \/ (\H2F800 <= cp /\ cp <= \H2FA1F)
    \/ (\H3040 <= cp /\ cp <= \H309F)
    \/ (\H30A0 <= cp /\ cp <= \H30FF)
    \/ (\HAC00 <= cp /\ cp <= \HD7AF)
    \/ (\H3100 <= cp /\ cp <= \H312F)

is_cjk_character(cp) ==
    \/ (\H4E00 <= cp /\ cp <= \H9FFF)      \* CJK Unified Ideographs
    \/ (\H3400 <= cp /\ cp <= \H4DBF)      \* CJK Extension A
    \/ (\H20000 <= cp /\ cp <= \H2A6DF)    \* CJK Extension B
    \/ (\H2A700 <= cp /\ cp <= \H2B73F)    \* CJK Extension C
    \/ (\H2B740 <= cp /\ cp <= \H2B81F)    \* CJK Extension D
    \/ (\H2B820 <= cp /\ cp <= \H2CEAF)    \* CJK Extension E
    \/ (\H2CEB0 <= cp /\ cp <= \H2EBEF)    \* CJK Extension F
    \/ (\H30000 <= cp /\ cp <= \H3134F)    \* CJK Extension G
    \/ (\H31350 <= cp /\ cp <= \H323AF)    \* CJK Extension H
    \/ (\H2EBF0 <= cp /\ cp <= \H2EE5F)    \* CJK Extension I
    \/ (\HF900 <= cp /\ cp <= \HFAFF)      \* CJK Compatibility Ideographs
    \/ (\H2F800 <= cp /\ cp <= \H2FA1F)    \* CJK Compatibility Ideographs Supplement
    \/ (\H3040 <= cp /\ cp <= \H309F)      \* Hiragana
    \/ (\H30A0 <= cp /\ cp <= \H30FF)      \* Katakana
    \/ (\HAC00 <= cp /\ cp <= \HD7AF)      \* Hangul Syllables
    \/ (\H3100 <= cp /\ cp <= \H312F)      \* Bopomofo (Zhuyin)

\* every code point up to the one after the last range of the table
CodePoints == 0..MaxCodePoint

InitCJK ==
    /\ pc = "call"
    /\ text = <<>>
    /\ lang = <<>>
    /\ code_point \in CodePoints
    /\ mode = NoArg
    /\ result = <<>>
    /\ kept = {}
    /\ again = <<>>
    /\ returned = FALSE
    /\ raised = "none"

\* UniText.is_cjk_character(code_point)
CallIsCjkCharacter ==
    /\ pc = "call"
    /\ returned' = is_cjk_character(code_point)
    /\ pc' = "done"
    /\ UNCHANGED <<text, lang, code_point, mode, result, kept, again, raised>>

NextCJK == CallIsCjkCharacter

SpecCJK == InitCJK /\ [][NextCJK]_vars

(***************************************************************************)
(* Properties of is_cjk_character, checked under SpecCJK.                  *)
(***************************************************************************)
\* the 16 inclusive ranges of the full CJK table, as the specification lists
\* them
CJKTable ==
    << <<19968, 40959>>, <<13312, 19903>>, <<131072, 173791>>, <<173824, 177983>>,
       <<177984, 178207>>, <<178208, 183983>>, <<183984, 191471>>, <<196608, 201551>>,
       <<201552, 205743>>, <<191472, 192095>>, <<63744, 64255>>, <<194560, 195103>>,
       <<12352, 12447>>, <<12448, 12543>>, <<44032, 55215>>, <<12544, 12591>> >>

InCJKTable(cp) == \E r \in 1..Len(CJKTable) : CJKTable[r][1] <= cp /\ cp <= CJKTable[r][2]

JustOutsideARange(cp) ==
    \E r \in 1..Len(CJKTable) : cp = CJKTable[r][1] - 1 \/ cp = CJKTable[r][2] + 1

\* C6 as stated: is_cjk_character is true inside each of the 16 ranges and
\* false at the code point just below and just above every range.
C6_FalseJustOutsideEveryRange ==
    pc = "done" =>
        /\ InCJKTable(code_point) => returned = TRUE
        /\ JustOutsideARange(code_point) => returned = FALSE

\* C6 amended: is_cjk_character is true inside each of the 16 ranges, and
\* false at the code point just below and just above a range unless that code
\* point belongs to another range of the table (the table has adjacent
\* ranges).
C6_FalseJustOutsideUnlessInAnotherRange ==
    pc = "done" =>
        /\ InCJKTable(code_point) => returned = TRUE
        /\ (JustOutsideARange(code_point) /\ ~InCJKTable(code_point)) => returned = FALSE

\* the call on U+2A6E0, just above Extension B and inside no range
C6_Witness ==
    /\ pc = "done"
    /\ code_point = 173792
    /\ JustOutsideARange(code_point)
    /\ ~InCJKTable(code_point)
    /\ returned = FALSE

====
